---- MODULE Spec2Model ----
(***************************************************************************)
(* Model of the Azure-Tools scripts: the SKU filter (filter_skus.py) and    *)
(* the identity scripts, which are the setup orchestrator                  *)
(* (az_create_sp.py), the teardown orchestrator (az_destroy_sp.py) and the  *)
(* functions they call.  The directory service (applications, service      *)
(* principals, password credentials) and the authorization service (role   *)
(* assignments, role definitions) are the remote state; every remote call  *)
(* may fail, which is an input of the action that issues it.               *)
(***************************************************************************)
EXTENDS Integers, Sequences, FiniteSets, TLC

VARIABLES
    apps,                \* application registrations in the directory
    sps,                 \* service principals in the directory
    assignments,         \* role assignments of the subscription
    nextId,              \* next identifier the services / uuid4 hand out
    pc,                  \* position of the running script
    mode,                \* "api" | "setup" | "teardown": what runs
    runs,                \* operations started so far
    app_id,              \* async_main local
    app_object_id,       \* async_main local (teardown)
    sp_obj_id,           \* async_main local
    client_secret_value, \* async_main local (setup)
    role_idx,            \* position of the `for role in config['ROLES']` loop
    response,            \* answer typed at the confirmation prompt
    exit_code,           \* process exit code once pc = "exited"
    exports,             \* TRUE once the export lines were printed
    completed,           \* TRUE once "DESTRUCTION PROCESS COMPLETED" was printed
    last,                \* the function call the latest step made, with the
                         \* remote calls it issued (fn = "none": it made none)
    repeat,              \* last call had the same function and arguments as the
                         \* call right before it, which had returned normally
    all_skus,            \* filter_skus.py: the array read from standard input
    location,            \* filter_skus.py: sys.argv[1]
    filtered,            \* filter_skus.py: the array the script computes
    written              \* filter_skus.py: TRUE once the output file is written

vars == <<apps, sps, assignments, nextId, pc, mode, runs, app_id, app_object_id,
          sp_obj_id, client_secret_value, role_idx, response, exit_code, exports,
          completed, last, repeat, all_skus, location, filtered, written>>

----------------------------------------------------------------------------
(* Bounds of the model *)

\* operations (function calls from idle, orchestrator runs) per behaviour
MaxRuns == 2
\* identifiers the services may hand out after the initial state
MaxFresh == 5
\* role-name lookups that fail while one call deletes assignments
MaxNameFailures == 1

----------------------------------------------------------------------------
(* Values *)

\* Python's None / empty object id (falsy)
None == 0

\* config['SP_NAME']
SP_NAME == "ci-sp"
OTHER_NAME == "other-sp"

\* config['ROLES']
ROLES == <<"Contributor", "Reader">>

\* f"/subscriptions/{az_subscription}" and two resource groups below it,
\* as sequences of path segments
SubScope == <<"subscriptions", "sub1">>
RG1 == SubScope \o <<"resourceGroups", "rg1">>
RG2 == SubScope \o <<"resourceGroups", "rg2">>

\* role definitions of the subscription: id -> role_name (reference data)
RoleDefIds == {"rd-contributor", "rd-reader"}
role_name(role_definition_id) ==
    IF role_definition_id = "rd-contributor" THEN "Contributor" ELSE "Reader"

EXISTING_SECRET == "[EXISTING_SECRET_VALUE_NOT_RETRIEVABLE]"
NO_SECRET == "none"
SECRET_TEXT == "secret_text"

\* a remote call: the function that issued it, the SDK operation, its target
\* (an object / assignment id, None when it has none) and whether it succeeded
Call(fn, op, arg, ok) == [fn |-> fn, op |-> op, arg |-> arg, ok |-> ok]

\* Python's `a in b` on strings (scopes are sequences of segments here)
IsSubstring(a, b) ==
    \E i \in 0..(Len(b) - Len(a)) : SubSeq(b, i + 1, i + Len(a)) = a

\* a listing returned by the service: the records in id order
RECURSIVE Listing(_)
Listing(S) ==
    IF S = {} THEN <<>>
    ELSE LET m == CHOOSE x \in S : \A y \in S : x.id <= y.id
         IN  <<m>> \o Listing(S \ {m})

\* ids of a sequence of records
Ids(s) == [i \in 1..Len(s) |-> s[i].id]
Range(s) == {s[i] : i \in 1..Len(s)}

----------------------------------------------------------------------------
(* Initial remote states *)

AppWithSecret == [id |-> 1, appId |-> 2, displayName |-> SP_NAME, secrets |-> 1]
AppNoSecret   == [id |-> 1, appId |-> 2, displayName |-> SP_NAME, secrets |-> 0]
TargetSP      == [id |-> 3, appId |-> 2, displayName |-> SP_NAME]
OtherSP       == [id |-> 4, appId |-> 5, displayName |-> OTHER_NAME]
\* the object id of a principal that was deleted from the directory
DeletedPrincipal == OtherSP.appId + 1

A1 == [id |-> 7, principalId |-> TargetSP.id, roleDefinitionId |-> "rd-contributor",
       scope |-> SubScope]
A2 == [id |-> 8, principalId |-> OtherSP.id, roleDefinitionId |-> "rd-contributor",
       scope |-> SubScope]
A3 == [id |-> 9, principalId |-> DeletedPrincipal, roleDefinitionId |-> "rd-contributor",
       scope |-> RG1]
SeedAssignments == {A1, A2, A3}

\* the remote states a script may find
SeedStates ==
    { \* a tenant where the scripts never ran
      [apps |-> {}, sps |-> {OtherSP}, assignments |-> {}],
      [apps |-> {}, sps |-> {OtherSP}, assignments |-> {A2}],
      \* set up before
      [apps |-> {AppWithSecret}, sps |-> {TargetSP, OtherSP}, assignments |-> {A1}],
      [apps |-> {AppWithSecret}, sps |-> {TargetSP, OtherSP}, assignments |-> {A1, A2}],
      \* a setup that stopped after the application was registered
      [apps |-> {AppNoSecret}, sps |-> {OtherSP}, assignments |-> {A3}],
      \* the application was deleted out of band, its principal was not
      [apps |-> {}, sps |-> {TargetSP, OtherSP}, assignments |-> {A1, A2}],
      \* application and principal were deleted, their assignments were not
      [apps |-> {}, sps |-> {OtherSP}, assignments |-> {A1, A3}],
      [apps |-> {}, sps |-> {OtherSP}, assignments |-> {A1, A2}] }

\* the services never hand out an identifier that was used before
SeedIds ==
    UNION { {a.id, a.appId} : a \in {AppWithSecret, AppNoSecret} }
    \cup UNION { {s.id, s.appId} : s \in {TargetSP, OtherSP} }
    \cup UNION { {a.id, a.principalId} : a \in SeedAssignments }
    \cup {DeletedPrincipal}
FirstFreshId == 1 + CHOOSE m \in SeedIds : \A x \in SeedIds : x <= m

----------------------------------------------------------------------------
(* scripts/create/create_app_registration.py *)

\* ok = [get, post]: which remote calls succeed.  nid: the ids the service
\* gives a new application (object id nid, application id nid + 1).
create_app_registration_async(a, display_name, nid, ok) ==
    LET fn == "create_app_registration_async"
        c1 == Call(fn, "applications.get", None, ok.get)
        c2 == Call(fn, "applications.post", None, ok.post)
        applications == Listing(a)
        found == {i \in 1..Len(applications) : applications[i].displayName = display_name}
    IN  IF ~ok.get
        THEN [apps |-> a, calls |-> <<c1>>, raised |-> TRUE, ret |-> None, used |-> 0]
        ELSE IF found # {}
        THEN LET app == applications[CHOOSE i \in found : \A j \in found : i <= j]
             IN  [apps |-> a, calls |-> <<c1>>, raised |-> FALSE, ret |-> app.appId, used |-> 0]
        ELSE IF ~ok.post
        THEN [apps |-> a, calls |-> <<c1, c2>>, raised |-> TRUE, ret |-> None, used |-> 0]
        ELSE [apps |-> a \cup {[id |-> nid, appId |-> nid + 1,
                                 displayName |-> display_name, secrets |-> 0]},
              calls |-> <<c1, c2>>, raised |-> FALSE, ret |-> nid + 1, used |-> 2]

----------------------------------------------------------------------------
(* scripts/create/create_service_principal.py *)

\* the directory names a new principal after its application
DisplayNameOfApp(a, appId) ==
    IF \E x \in a : x.appId = appId
    THEN (CHOOSE x \in a : x.appId = appId).displayName
    ELSE OTHER_NAME

\* the function without the lookup of lines 17-25: it always creates
create_service_principal_async_AlwaysCreates(s, a, appId, nid, ok) ==
    LET fn == "create_service_principal_async"
        c2 == Call(fn, "service_principals.post", None, ok.post)
    IN  IF ~ok.post
        THEN [sps |-> s, calls |-> <<c2>>, raised |-> TRUE, ret |-> None, used |-> 0]
        ELSE [sps |-> s \cup {[id |-> nid, appId |-> appId,
                               displayName |-> DisplayNameOfApp(a, appId)]},
              calls |-> <<c2>>, raised |-> FALSE, ret |-> nid, used |-> 1]

create_service_principal_async(s, a, appId, nid, ok) ==
    LET fn == "create_service_principal_async"
        c1 == Call(fn, "service_principals.get", None, ok.get)
        c2 == Call(fn, "service_principals.post", None, ok.post)
        service_principals == Listing(s)
        found == {i \in 1..Len(service_principals) : service_principals[i].appId = appId}
    IN  IF ~ok.get
        THEN [sps |-> s, calls |-> <<c1>>, raised |-> TRUE, ret |-> None, used |-> 0]
        ELSE IF found # {}
        THEN LET sp == service_principals[CHOOSE i \in found : \A j \in found : i <= j]
             IN  [sps |-> s, calls |-> <<c1>>, raised |-> FALSE, ret |-> sp.id, used |-> 0]
        ELSE IF ~ok.post
        THEN [sps |-> s, calls |-> <<c1, c2>>, raised |-> TRUE, ret |-> None, used |-> 0]
        ELSE [sps |-> s \cup {[id |-> nid, appId |-> appId,
                               displayName |-> DisplayNameOfApp(a, appId)]},
              calls |-> <<c1, c2>>, raised |-> FALSE, ret |-> nid, used |-> 1]

----------------------------------------------------------------------------
(* scripts/create/create_client_secret.py *)

\* ok = [list, check, post].  The existing-secrets check sits in its own
\* try/except: when the call fails the function goes on to create a secret.
\* the check without the try/except around it would have to answer without
\* the call's result; here it answers from the directory
ExistingSecretsFound_Always(app, checkOk) == app.secrets > 0

ExistingSecretsFound(app, checkOk) == checkOk /\ app.secrets > 0

create_client_secret_async(a, appId, ok) ==
    LET fn == "create_client_secret_async"
        c1 == Call(fn, "applications.get", None, ok.list)
        applications == Listing(a)
        found == {i \in 1..Len(applications) : applications[i].appId = appId}
    IN  IF ~ok.list
        THEN [apps |-> a, calls |-> <<c1>>, raised |-> TRUE, ret |-> NO_SECRET]
        ELSE IF found = {}
        THEN [apps |-> a, calls |-> <<c1>>, raised |-> TRUE, ret |-> NO_SECRET]
        ELSE
        LET app == applications[CHOOSE i \in found : \A j \in found : i <= j]
            c2 == Call(fn, "applications.by_application_id.get", app.id, ok.check)
            c3 == Call(fn, "add_password.post", app.id, ok.post)
        IN  IF ExistingSecretsFound(app, ok.check)
            THEN [apps |-> a, calls |-> <<c1, c2>>, raised |-> FALSE, ret |-> EXISTING_SECRET]
            ELSE IF ~ok.post
            THEN [apps |-> a, calls |-> <<c1, c2, c3>>, raised |-> TRUE, ret |-> NO_SECRET]
            ELSE [apps |-> (a \ {app}) \cup {[app EXCEPT !.secrets = @ + 1]},
                  calls |-> <<c1, c2, c3>>, raised |-> FALSE, ret |-> SECRET_TEXT]

----------------------------------------------------------------------------
(* scripts/create/create_iam.py *)

\* role_definitions.list(scope, filter="roleName eq '<role>'")
\* (role names are unique in a directory: at most one definition matches)
role_definitions_list(scope, role) ==
    LET matching == {x \in RoleDefIds : role_name(x) = role}
    IN  IF matching = {} THEN <<>> ELSE <<[id |-> CHOOSE d \in matching : TRUE]>>

\* role_assignments.list_for_scope(scope): the assignments at that scope
list_for_scope(asg, scope) == Listing({x \in asg : x.scope = scope})

\* the loop without the comparison of the role definition
AlreadyAssigned_AnyRole(existing_assignments, principal, role_definition_id) ==
    \E i \in 1..Len(existing_assignments) :
        existing_assignments[i].principalId = principal

\* the function without the loop: it always creates
AlreadyAssigned_Never(existing_assignments, principal, role_definition_id) == FALSE

\* the loop over existing_assignments: TRUE when it returns early
AlreadyAssigned(existing_assignments, principal, role_definition_id) ==
    \E i \in 1..Len(existing_assignments) :
        /\ existing_assignments[i].principalId = principal
        /\ existing_assignments[i].roleDefinitionId = role_definition_id

\* ok = [defs, list, create].  nid: the id of the assignment uuid4 names.
assign_iam_role_async(asg, principal, role, scope, nid, ok) ==
    LET fn == "assign_iam_role_async"
        c1 == Call(fn, "role_definitions.list", None, ok.defs)
        c2 == Call(fn, "role_assignments.list_for_scope", None, ok.list)
        c3 == Call(fn, "role_assignments.create", nid, ok.create)
        role_definitions == role_definitions_list(scope, role)
    IN  IF ~ok.defs
        THEN [assignments |-> asg, calls |-> <<c1>>, raised |-> TRUE, used |-> 0]
        ELSE IF role_definitions = <<>>
        THEN [assignments |-> asg, calls |-> <<c1>>, raised |-> TRUE, used |-> 0]
        ELSE
        LET role_definition_id == role_definitions[1].id
        IN  IF ~ok.list
            THEN [assignments |-> asg, calls |-> <<c1, c2>>, raised |-> TRUE, used |-> 0]
            ELSE IF AlreadyAssigned(list_for_scope(asg, scope), principal, role_definition_id)
            THEN [assignments |-> asg, calls |-> <<c1, c2>>, raised |-> FALSE, used |-> 0]
            ELSE IF ~ok.create
            THEN [assignments |-> asg, calls |-> <<c1, c2, c3>>, raised |-> TRUE, used |-> 0]
            ELSE [assignments |-> asg \cup {[id |-> nid, principalId |-> principal,
                                              roleDefinitionId |-> role_definition_id,
                                              scope |-> scope]},
                  calls |-> <<c1, c2, c3>>, raised |-> FALSE, used |-> 1]

----------------------------------------------------------------------------
(* scripts/destroy/destroy_iam.py *)

\* role_assignments.list_for_subscription(): every assignment of the subscription
list_for_subscription(asg) == Listing(asg)

\* lines 35-37 without the comparison of the display name
TargetSpIds_AnyName(s, principal, sp_name) ==
    IF principal # None THEN {principal} ELSE {x.id : x \in s}

\* lines 27-41: the principals whose assignments are removed
TargetSpIds(s, principal, sp_name) ==
    IF principal # None THEN {principal}
    ELSE {x.id : x \in {y \in s : y.displayName = sp_name}}

\* line 63 without `not sp_obj_id`
SweepEnabled_AnyMode(principal, role, scope) ==
    scope # <<>> /\ role # ""

\* line 63: the orphan sweep looks at an assignment only in name-based mode
\* and with a scope and a role to match
SweepEnabled(principal, role, scope) ==
    principal = None /\ scope # <<>> /\ role # ""

\* line 68
ScopeRelated(scope, assignment) ==
    IsSubstring(scope, assignment.scope) \/ IsSubstring(assignment.scope, scope)

\* the partition with `if` for the `elif` of line 63: a direct match is
\* swept as well
RECURSIVE Categorize_NoElif(_, _, _, _, _, _)
Categorize_NoElif(all, target_sp_ids, principal, role, scope, lookupFails) ==
    IF all = <<>> THEN [direct |-> <<>>, orphaned |-> <<>>, calls |-> <<>>]
    ELSE
    LET assignment == Head(all)
        rest == Categorize_NoElif(Tail(all), target_sp_ids, principal, role, scope,
                                  lookupFails)
        lookupOk == assignment.id \notin lookupFails
        c == Call("remove_all_iam_roles_async", "role_definitions.get_by_id",
                  assignment.id, lookupOk)
        direct == IF assignment.principalId \in target_sp_ids
                  THEN <<assignment>> ELSE <<>>
    IN  IF SweepEnabled(principal, role, scope) /\ ScopeRelated(scope, assignment)
        THEN IF lookupOk /\ role_name(assignment.roleDefinitionId) = role
             THEN [rest EXCEPT !.direct = direct \o @, !.orphaned = <<assignment>> \o @,
                               !.calls = <<c>> \o @]
             ELSE [rest EXCEPT !.direct = direct \o @, !.calls = <<c>> \o @]
        ELSE [rest EXCEPT !.direct = direct \o @]

\* the partition with a direct match that has to have the requested role too
RECURSIVE Categorize_DirectByRole(_, _, _, _, _, _)
Categorize_DirectByRole(all, target_sp_ids, principal, role, scope, lookupFails) ==
    IF all = <<>> THEN [direct |-> <<>>, orphaned |-> <<>>, calls |-> <<>>]
    ELSE
    LET assignment == Head(all)
        rest == Categorize_DirectByRole(Tail(all), target_sp_ids, principal, role, scope,
                                        lookupFails)
        lookupOk == assignment.id \notin lookupFails
        c == Call("remove_all_iam_roles_async", "role_definitions.get_by_id",
                  assignment.id, lookupOk)
    IN  IF /\ assignment.principalId \in target_sp_ids
           /\ role_name(assignment.roleDefinitionId) = role
        THEN [rest EXCEPT !.direct = <<assignment>> \o @]
        ELSE IF SweepEnabled(principal, role, scope) /\ ScopeRelated(scope, assignment)
        THEN IF lookupOk /\ role_name(assignment.roleDefinitionId) = role
             THEN [rest EXCEPT !.orphaned = <<assignment>> \o @, !.calls = <<c>> \o @]
             ELSE [rest EXCEPT !.calls = <<c>> \o @]
        ELSE rest

\* lines 59-76: partition of the listing.  lookupFails: the assignments whose
\* role_definitions.get_by_id call fails during the sweep.
RECURSIVE Categorize(_, _, _, _, _, _)
Categorize(all, target_sp_ids, principal, role, scope, lookupFails) ==
    IF all = <<>> THEN [direct |-> <<>>, orphaned |-> <<>>, calls |-> <<>>]
    ELSE
    LET assignment == Head(all)
        rest == Categorize(Tail(all), target_sp_ids, principal, role, scope, lookupFails)
        lookupOk == assignment.id \notin lookupFails
        c == Call("remove_all_iam_roles_async", "role_definitions.get_by_id",
                  assignment.id, lookupOk)
    IN  IF assignment.principalId \in target_sp_ids
        THEN [rest EXCEPT !.direct = <<assignment>> \o @]
        ELSE IF SweepEnabled(principal, role, scope) /\ ScopeRelated(scope, assignment)
        THEN IF lookupOk /\ role_name(assignment.roleDefinitionId) = role
             THEN [rest EXCEPT !.orphaned = <<assignment>> \o @, !.calls = <<c>> \o @]
             ELSE [rest EXCEPT !.calls = <<c>> \o @]
        ELSE rest

\* the loops with the try around them instead of inside them: the first
\* failed delete ends the batch
RECURSIVE RemoveEach_AbortOnFailure(_, _, _, _)
RemoveEach_AbortOnFailure(list, asg, nameFails, deleteFails) ==
    IF list = <<>> THEN [assignments |-> asg, calls |-> <<>>, removed |-> 0]
    ELSE
    LET assignment == Head(list)
        deleted == assignment.id \notin deleteFails
        cName == Call("remove_all_iam_roles_async", "role_definitions.get_by_id",
                      assignment.id, assignment.id \notin nameFails)
        cDel == Call("remove_all_iam_roles_async", "role_assignments.delete_by_id",
                     assignment.id, deleted)
        rest == IF deleted
                THEN RemoveEach_AbortOnFailure(Tail(list), asg \ {assignment},
                                               nameFails, deleteFails)
                ELSE [assignments |-> asg, calls |-> <<>>, removed |-> 0]
    IN  [rest EXCEPT !.calls = <<cName, cDel>> \o @,
                     !.removed = @ + (IF deleted THEN 1 ELSE 0)]

\* lines 88-104 and 107-125: one try block per assignment; a failed role-name
\* lookup leaves "Unknown", a failed delete is printed, the loop goes on.
RECURSIVE RemoveEach(_, _, _, _)
RemoveEach(list, asg, nameFails, deleteFails) ==
    IF list = <<>> THEN [assignments |-> asg, calls |-> <<>>, removed |-> 0]
    ELSE
    LET assignment == Head(list)
        deleted == assignment.id \notin deleteFails
        cName == Call("remove_all_iam_roles_async", "role_definitions.get_by_id",
                      assignment.id, assignment.id \notin nameFails)
        cDel == Call("remove_all_iam_roles_async", "role_assignments.delete_by_id",
                     assignment.id, deleted)
        rest == RemoveEach(Tail(list), IF deleted THEN asg \ {assignment} ELSE asg,
                           nameFails, deleteFails)
    IN  [rest EXCEPT !.calls = <<cName, cDel>> \o @,
                     !.removed = @ + (IF deleted THEN 1 ELSE 0)]

\* the function with the test of lines 14-15 inside its try block: the
\* ValueError is caught by the except of line 132 like every other failure
remove_all_iam_roles_async_Swallows(s, asg, principal, sp_name, role, scope, ok) ==
    LET fn == "remove_all_iam_roles_async"
        nothing == [assignments |-> asg, calls |-> <<>>, raised |-> FALSE, listed |-> FALSE,
                    targets |-> {}, direct |-> <<>>, orphaned |-> <<>>,
                    found |-> 0, removed |-> 0, ret |-> None]
        cSp == IF principal = None
               THEN <<Call(fn, "service_principals.get", None, ok.spget)>> ELSE <<>>
        cList == Call(fn, "role_assignments.list_for_subscription", None, ok.list)
        target_sp_ids == TargetSpIds(s, principal, sp_name)
    IN  IF principal = None /\ sp_name = ""
        THEN nothing
        ELSE IF principal = None /\ ~ok.spget
        THEN [nothing EXCEPT !.calls = cSp]
        ELSE IF ~ok.list
        THEN [nothing EXCEPT !.calls = cSp \o <<cList>>, !.targets = target_sp_ids]
        ELSE
        LET all_assignments == list_for_subscription(asg)
            cat == Categorize(all_assignments, target_sp_ids, principal,
                              role, scope, ok.lookupFails)
            total_found == Len(cat.direct) + Len(cat.orphaned)
            rem == RemoveEach(cat.direct \o cat.orphaned, asg,
                              ok.nameFails, ok.deleteFails)
        IN  IF total_found = 0
            THEN [nothing EXCEPT !.calls = cSp \o <<cList>> \o cat.calls,
                                 !.listed = TRUE, !.targets = target_sp_ids]
            ELSE
            [assignments |-> rem.assignments,
             calls |-> cSp \o <<cList>> \o cat.calls \o rem.calls,
             raised |-> FALSE, listed |-> TRUE, targets |-> target_sp_ids,
             direct |-> cat.direct, orphaned |-> cat.orphaned,
             found |-> total_found, removed |-> rem.removed, ret |-> None]

\* ok = [spget, list: BOOLEAN, lookupFails, nameFails, deleteFails: sets of
\* assignment ids].  raised: the ValueError of line 15; every other failure is
\* caught by the except of line 132.  listed: line 78 was reached.  found,
\* removed: total_found and assignments_removed, which line 127 prints; the
\* function has no return statement with a value, so it returns None.
remove_all_iam_roles_async(s, asg, principal, sp_name, role, scope, ok) ==
    LET fn == "remove_all_iam_roles_async"
        nothing == [assignments |-> asg, calls |-> <<>>, raised |-> FALSE, listed |-> FALSE,
                    targets |-> {}, direct |-> <<>>, orphaned |-> <<>>,
                    found |-> 0, removed |-> 0, ret |-> None]
        cSp == IF principal = None
               THEN <<Call(fn, "service_principals.get", None, ok.spget)>> ELSE <<>>
        cList == Call(fn, "role_assignments.list_for_subscription", None, ok.list)
        target_sp_ids == TargetSpIds(s, principal, sp_name)
    IN  IF principal = None /\ sp_name = ""
        THEN [nothing EXCEPT !.raised = TRUE]
        ELSE IF principal = None /\ ~ok.spget
        THEN [nothing EXCEPT !.calls = cSp]
        ELSE IF ~ok.list
        THEN [nothing EXCEPT !.calls = cSp \o <<cList>>, !.targets = target_sp_ids]
        ELSE
        LET all_assignments == list_for_subscription(asg)
            cat == Categorize(all_assignments, target_sp_ids, principal,
                              role, scope, ok.lookupFails)
            total_found == Len(cat.direct) + Len(cat.orphaned)
            rem == RemoveEach(cat.direct \o cat.orphaned, asg,
                              ok.nameFails, ok.deleteFails)
        IN  IF total_found = 0
            THEN [nothing EXCEPT !.calls = cSp \o <<cList>> \o cat.calls,
                                 !.listed = TRUE, !.targets = target_sp_ids]
            ELSE
            [assignments |-> rem.assignments,
             calls |-> cSp \o <<cList>> \o cat.calls \o rem.calls,
             raised |-> FALSE, listed |-> TRUE, targets |-> target_sp_ids,
             direct |-> cat.direct, orphaned |-> cat.orphaned,
             found |-> total_found, removed |-> rem.removed, ret |-> None]

----------------------------------------------------------------------------
(* scripts/destroy/destroy_service_principal.py, destroy_app_registration.py *)

\* ok = [get, delete].  The details lookup fails when the object is absent;
\* the function then returns.  Nothing is ever raised to the caller.
\* the function without the inner try of lines 14-19: a failed details lookup
\* is an error of the removal
remove_service_principal_async_Raises(s, principal, ok) ==
    LET fn == "remove_service_principal_async"
        present == \E x \in s : x.id = principal
        c1 == Call(fn, "service_principals.by_id.get", principal, present /\ ok.get)
        c2 == Call(fn, "service_principals.by_id.delete", principal, ok.delete)
    IN  IF ~(present /\ ok.get)
        THEN [sps |-> s, calls |-> <<c1>>, raised |-> TRUE]
        ELSE IF ~ok.delete
        THEN [sps |-> s, calls |-> <<c1, c2>>, raised |-> FALSE]
        ELSE [sps |-> {x \in s : x.id # principal}, calls |-> <<c1, c2>>, raised |-> FALSE]

remove_service_principal_async(s, principal, ok) ==
    LET fn == "remove_service_principal_async"
        present == \E x \in s : x.id = principal
        c1 == Call(fn, "service_principals.by_id.get", principal, present /\ ok.get)
        c2 == Call(fn, "service_principals.by_id.delete", principal, ok.delete)
    IN  IF ~(present /\ ok.get)
        THEN [sps |-> s, calls |-> <<c1>>, raised |-> FALSE]
        ELSE IF ~ok.delete
        THEN [sps |-> s, calls |-> <<c1, c2>>, raised |-> FALSE]
        ELSE [sps |-> {x \in s : x.id # principal}, calls |-> <<c1, c2>>, raised |-> FALSE]

remove_app_registration_async(a, object_id, ok) ==
    LET fn == "remove_app_registration_async"
        present == \E x \in a : x.id = object_id
        c1 == Call(fn, "applications.by_id.get", object_id, present /\ ok.get)
        c2 == Call(fn, "applications.by_id.delete", object_id, ok.delete)
    IN  IF ~(present /\ ok.get)
        THEN [apps |-> a, calls |-> <<c1>>, raised |-> FALSE]
        ELSE IF ~ok.delete
        THEN [apps |-> a, calls |-> <<c1, c2>>, raised |-> FALSE]
        ELSE [apps |-> {x \in a : x.id # object_id}, calls |-> <<c1, c2>>, raised |-> FALSE]

----------------------------------------------------------------------------
(* Bookkeeping of what a step did *)

\* the summary of a step that called no function
NoCall ==
    [fn |-> "none", principal |-> None, name |-> "", role |-> "", scope |-> <<>>,
     app |-> None, raised |-> FALSE, ret |-> None, secret |-> NO_SECRET,
     listed |-> FALSE, targets |-> {}, direct |-> <<>>, orphaned |-> <<>>,
     found |-> 0, removed |-> 0, calls |-> <<>>]

Invocation(fn, principal, name, role, scope, app) ==
    [NoCall EXCEPT !.fn = fn, !.principal = principal, !.name = name,
                   !.role = role, !.scope = scope, !.app = app]

\* the call `inv` comes right after a call of the same function with the same
\* arguments that returned normally
Repeats(inv) ==
    /\ last.fn = inv.fn /\ ~last.raised
    /\ last.principal = inv.principal /\ last.name = inv.name
    /\ last.role = inv.role /\ last.scope = inv.scope /\ last.app = inv.app

FreshLeft(used) == nextId + used <= FirstFreshId + MaxFresh

remote == <<apps, sps, assignments, nextId>>
locals == <<app_id, app_object_id, sp_obj_id, client_secret_value, role_idx, response>>
outcome == <<exit_code, exports, completed>>
skus == <<all_skus, location, filtered, written>>

TypeOK ==
    /\ pc \in {"idle", "s_app", "s_sp", "s_secret", "s_roles", "t_prompt", "t_find",
               "t_roles", "t_sp", "t_app", "t_done", "exited", "returned"}
    /\ mode \in {"api", "setup", "teardown"}
    /\ runs \in 0..MaxRuns
    /\ nextId \in FirstFreshId..(FirstFreshId + MaxFresh)
    /\ exit_code \in {0, 1}
    /\ exports \in BOOLEAN /\ completed \in BOOLEAN /\ repeat \in BOOLEAN

\* no identity script has started
ScriptsIdle ==
    /\ nextId = FirstFreshId
    /\ pc = "idle" /\ mode = "api" /\ runs = 0
    /\ app_id = None /\ app_object_id = None /\ sp_obj_id = None
    /\ client_secret_value = NO_SECRET /\ role_idx = 1 /\ response = <<>>
    /\ exit_code = 0 /\ exports = FALSE /\ completed = FALSE
    /\ last = NoCall /\ repeat = FALSE

\* filter_skus.py is not run
NoSkus == all_skus = <<>> /\ location = "" /\ filtered = <<>> /\ written = FALSE

Init ==
    /\ \E d \in SeedStates :
         apps = d.apps /\ sps = d.sps /\ assignments = d.assignments
    /\ ScriptsIdle
    /\ NoSkus

----------------------------------------------------------------------------
(* The functions called on their own *)

RoleArgs == {"Contributor", "Reader", "Owner"}
ScopeArgs == {SubScope, RG2}

\* a function is called from the shell, or again with the same arguments by
\* the caller it has just returned to
CanCall(inv) ==
    /\ runs < MaxRuns
    /\ pc = "idle" \/ (pc = "returned" /\ Repeats(inv))

ApiStep(inv) ==
    /\ mode' = "api" /\ runs' = runs + 1 /\ pc' = "returned"
    /\ repeat' = Repeats(inv)
    /\ UNCHANGED <<locals, outcome, skus>>

ApiAssign ==
    \E principal \in {x.id : x \in sps}, role \in RoleArgs, scope \in ScopeArgs :
      LET inv == Invocation("assign_iam_role_async", principal, "", role, scope, None)
      IN  /\ CanCall(inv)
          /\ \E ok \in [defs : BOOLEAN, list : BOOLEAN, create : BOOLEAN] :
             LET r == assign_iam_role_async(assignments, principal, role, scope, nextId, ok)
             IN  /\ FreshLeft(r.used)
                 /\ assignments' = r.assignments /\ nextId' = nextId + r.used
                 /\ last' = [inv EXCEPT !.raised = r.raised, !.calls = r.calls]
                 /\ ApiStep(inv)
                 /\ UNCHANGED <<apps, sps>>

ApiSecret ==
    \E appId \in {x.appId : x \in apps} \cup {AppWithSecret.appId} :
      LET inv == Invocation("create_client_secret_async", None, "", "", <<>>, appId)
      IN  /\ CanCall(inv)
          /\ \E ok \in [list : BOOLEAN, check : BOOLEAN, post : BOOLEAN] :
             LET r == create_client_secret_async(apps, appId, ok)
             IN  /\ apps' = r.apps
                 /\ last' = [inv EXCEPT !.raised = r.raised, !.secret = r.ret,
                                        !.calls = r.calls]
                 /\ ApiStep(inv)
                 /\ UNCHANGED <<sps, assignments, nextId>>

\* the assignments the sweep may look up, and those a call may try to delete
SweepIds(s, asg, principal, sp_name, role, scope) ==
    LET cat == Categorize(list_for_subscription(asg), TargetSpIds(s, principal, sp_name),
                          principal, role, scope, {})
    IN  {cat.calls[i].arg : i \in 1..Len(cat.calls)}
FoundIds(s, asg, principal, sp_name, role, scope, lookupFails) ==
    LET cat == Categorize(list_for_subscription(asg), TargetSpIds(s, principal, sp_name),
                          principal, role, scope, lookupFails)
    IN  Range(Ids(cat.direct)) \cup Range(Ids(cat.orphaned))

\* the failure patterns of one remove_all_iam_roles_async call: the listing
\* of the principals fails (name-based mode), or the listing of the
\* assignments fails, or some lookups and deletions do
RemoveAllOutcomes(s, asg, principal, sp_name, role, scope) ==
    LET allOk == [spget |-> TRUE, list |-> TRUE, lookupFails |-> {},
                  nameFails |-> {}, deleteFails |-> {}]
        perAssignment(lf) ==
            LET found == FoundIds(s, asg, principal, sp_name, role, scope, lf)
            IN  { [allOk EXCEPT !.lookupFails = lf, !.nameFails = nf, !.deleteFails = df]
                  : nf \in {x \in SUBSET found : Cardinality(x) <= MaxNameFailures},
                    df \in SUBSET found }
    IN  (IF principal = None THEN {[allOk EXCEPT !.spget = FALSE]} ELSE {})
        \cup {[allOk EXCEPT !.list = FALSE]}
        \cup UNION { perAssignment(lf)
                     : lf \in SUBSET SweepIds(s, asg, principal, sp_name, role, scope) }

RemoveAllSummary(inv, r) ==
    [inv EXCEPT !.raised = r.raised, !.listed = r.listed, !.targets = r.targets,
                !.direct = r.direct, !.orphaned = r.orphaned, !.found = r.found,
                !.removed = r.removed, !.ret = r.ret, !.calls = r.calls]

\* (sp_obj_id, sp_name, role, scope) of the calls made from the shell
RemoveAllArgs ==
    { <<None, "", "Contributor", SubScope>>,
      <<TargetSP.id, "", "Contributor", SubScope>>,
      <<TargetSP.id, SP_NAME, "Reader", RG2>>,
      <<OtherSP.id, SP_NAME, "", <<>>>>,
      <<None, SP_NAME, "Contributor", SubScope>>,
      <<None, SP_NAME, "Contributor", RG2>>,
      <<None, SP_NAME, "Reader", RG1>>,
      <<None, SP_NAME, "", SubScope>>,
      <<None, SP_NAME, "Contributor", <<>>>> }

ApiRemoveAll ==
    \E args \in RemoveAllArgs :
      LET principal == args[1]
          sp_name == args[2]
          role == args[3]
          scope == args[4]
          inv == Invocation("remove_all_iam_roles_async", principal, sp_name, role,
                            scope, None)
      IN  /\ CanCall(inv)
          /\ \E ok \in RemoveAllOutcomes(sps, assignments, principal, sp_name, role, scope) :
             LET r == remove_all_iam_roles_async(sps, assignments, principal, sp_name,
                                                 role, scope, ok)
             IN  /\ assignments' = r.assignments
                 /\ last' = RemoveAllSummary(inv, r)
                 /\ ApiStep(inv)
                 /\ UNCHANGED <<apps, sps, nextId>>

ApiRemoveSP ==
    \E principal \in {x.id : x \in sps} \cup {TargetSP.id} :
      LET inv == Invocation("remove_service_principal_async", principal, "", "", <<>>, None)
      IN  /\ CanCall(inv)
          /\ \E ok \in [get : BOOLEAN, delete : BOOLEAN] :
             LET r == remove_service_principal_async(sps, principal, ok)
             IN  /\ sps' = r.sps
                 /\ last' = [inv EXCEPT !.raised = r.raised, !.calls = r.calls]
                 /\ ApiStep(inv)
                 /\ UNCHANGED <<apps, assignments, nextId>>

ApiRemoveApp ==
    \E object_id \in {x.id : x \in apps} \cup {AppWithSecret.id} :
      LET inv == Invocation("remove_app_registration_async", None, "", "", <<>>, object_id)
      IN  /\ CanCall(inv)
          /\ \E ok \in [get : BOOLEAN, delete : BOOLEAN] :
             LET r == remove_app_registration_async(apps, object_id, ok)
             IN  /\ apps' = r.apps
                 /\ last' = [inv EXCEPT !.raised = r.raised, !.calls = r.calls]
                 /\ ApiStep(inv)
                 /\ UNCHANGED <<sps, assignments, nextId>>

----------------------------------------------------------------------------
(* az_create_sp.py: async_main *)

RunStep(inv, r) ==
    /\ repeat' = Repeats(inv)
    /\ UNCHANGED <<mode, runs, skus>>

NoCallStep == last' = NoCall /\ repeat' = FALSE /\ UNCHANGED skus

\* the except block ending the process as a normal return would
Fail_ExitZero == pc' = "exited" /\ exit_code' = 0

\* the except block of async_main: print the traceback, sys.exit(1)
Fail == pc' = "exited" /\ exit_code' = 1

SetupStart ==
    /\ pc = "idle" /\ runs < MaxRuns
    /\ pc' = "s_app" /\ mode' = "setup" /\ runs' = runs + 1
    /\ NoCallStep
    /\ UNCHANGED <<remote, locals, outcome>>

SetupApp ==
    /\ pc = "s_app"
    /\ \E ok \in [get : BOOLEAN, post : BOOLEAN] :
        LET r == create_app_registration_async(apps, SP_NAME, nextId, ok)
            inv == Invocation("create_app_registration_async", None, SP_NAME, "", <<>>, None)
        IN  /\ FreshLeft(r.used)
            /\ apps' = r.apps /\ nextId' = nextId + r.used
            /\ last' = [inv EXCEPT !.raised = r.raised, !.ret = r.ret, !.calls = r.calls]
            /\ RunStep(inv, r)
            /\ IF r.raised THEN Fail /\ UNCHANGED app_id
               ELSE pc' = "s_sp" /\ app_id' = r.ret /\ UNCHANGED exit_code
    /\ UNCHANGED <<sps, assignments, app_object_id, sp_obj_id, client_secret_value,
                   role_idx, response, exports, completed>>

SetupSP ==
    /\ pc = "s_sp"
    /\ \E ok \in [get : BOOLEAN, post : BOOLEAN] :
        LET r == create_service_principal_async(sps, apps, app_id, nextId, ok)
            inv == Invocation("create_service_principal_async", None, "", "", <<>>, app_id)
        IN  /\ FreshLeft(r.used)
            /\ sps' = r.sps /\ nextId' = nextId + r.used
            /\ last' = [inv EXCEPT !.raised = r.raised, !.ret = r.ret, !.calls = r.calls]
            /\ RunStep(inv, r)
            /\ IF r.raised THEN Fail /\ UNCHANGED sp_obj_id
               ELSE pc' = "s_secret" /\ sp_obj_id' = r.ret /\ UNCHANGED exit_code
    /\ UNCHANGED <<apps, assignments, app_id, app_object_id, client_secret_value,
                   role_idx, response, exports, completed>>

SetupSecret ==
    /\ pc = "s_secret"
    /\ \E ok \in [list : BOOLEAN, check : BOOLEAN, post : BOOLEAN] :
        LET r == create_client_secret_async(apps, app_id, ok)
            inv == Invocation("create_client_secret_async", None, "", "", <<>>, app_id)
        IN  /\ apps' = r.apps
            /\ last' = [inv EXCEPT !.raised = r.raised, !.secret = r.ret, !.calls = r.calls]
            /\ RunStep(inv, r)
            /\ IF r.raised THEN Fail /\ UNCHANGED client_secret_value
               ELSE pc' = "s_roles" /\ client_secret_value' = r.ret /\ UNCHANGED exit_code
    /\ UNCHANGED <<sps, assignments, nextId, app_id, app_object_id, sp_obj_id,
                   role_idx, response, exports, completed>>

\* one pass of `for role in config['ROLES']`
SetupRole ==
    /\ pc = "s_roles" /\ role_idx <= Len(ROLES)
    /\ \E ok \in [defs : BOOLEAN, list : BOOLEAN, create : BOOLEAN] :
        LET r == assign_iam_role_async(assignments, sp_obj_id, ROLES[role_idx], SubScope,
                                       nextId, ok)
            inv == Invocation("assign_iam_role_async", sp_obj_id, "", ROLES[role_idx],
                              SubScope, None)
        IN  /\ FreshLeft(r.used)
            /\ assignments' = r.assignments /\ nextId' = nextId + r.used
            /\ last' = [inv EXCEPT !.raised = r.raised, !.calls = r.calls]
            /\ RunStep(inv, r)
            /\ IF r.raised THEN Fail /\ UNCHANGED role_idx
               ELSE pc' = "s_roles" /\ role_idx' = role_idx + 1 /\ UNCHANGED exit_code
    /\ UNCHANGED <<apps, sps, app_id, app_object_id, sp_obj_id, client_secret_value,
                   response, exports, completed>>

\* the export lines printed inside the loop over the roles
SetupExport_Early ==
    /\ pc = "s_roles"
    /\ exports' = TRUE /\ pc' = "exited" /\ exit_code' = 0
    /\ NoCallStep
    /\ UNCHANGED <<remote, mode, runs, locals, completed>>

\* lines 89-98: the export lines, then the process ends normally
SetupExport ==
    /\ pc = "s_roles" /\ role_idx > Len(ROLES)
    /\ exports' = TRUE /\ pc' = "exited" /\ exit_code' = 0
    /\ NoCallStep
    /\ UNCHANGED <<remote, mode, runs, locals, completed>>

\* the process is gone, and its locals with it; the shell is back
Restart ==
    /\ pc \in {"exited", "returned"} /\ runs < MaxRuns
    /\ pc' = "idle" /\ mode' = "api"
    /\ app_id' = None /\ app_object_id' = None /\ sp_obj_id' = None
    /\ client_secret_value' = NO_SECRET /\ role_idx' = 1 /\ response' = <<>>
    /\ exit_code' = 0 /\ exports' = FALSE /\ completed' = FALSE
    /\ NoCallStep
    /\ UNCHANGED <<remote, runs>>

----------------------------------------------------------------------------
(* az_destroy_sp.py: async_main *)

\* str.lower() on the characters the answers use
LowerChar(c) ==
    CASE c = "Y" -> "y" [] c = "E" -> "e" [] c = "S" -> "s"
      [] c = "N" -> "n" [] c = "O" -> "o" [] OTHER -> c
lower(str) == [i \in 1..Len(str) |-> LowerChar(str[i])]

\* what the user may type at input(...)
Answers ==
    { <<"y">>, <<"Y", "e", "S">>, <<>>, <<"N", "O">>, <<"y", "e">>, <<" ", "y">> }

\* a prompt that takes the empty answer for a yes
Confirmed_DefaultYes(answer) == lower(answer) \in {<<"y", "e", "s">>, <<"y">>, <<>>}

\* line 53, negated
Confirmed(answer) == lower(answer) \in {<<"y", "e", "s">>, <<"y">>}

TeardownStart ==
    /\ pc = "idle" /\ runs < MaxRuns
    /\ pc' = "t_prompt" /\ mode' = "teardown" /\ runs' = runs + 1
    /\ NoCallStep
    /\ UNCHANGED <<remote, locals, outcome>>

\* lines 50-55
Prompt ==
    /\ pc = "t_prompt"
    /\ \E answer \in Answers :
        /\ response' = answer
        /\ IF Confirmed(answer) THEN pc' = "t_find" /\ UNCHANGED exit_code
           ELSE pc' = "exited" /\ exit_code' = 0
    /\ NoCallStep
    /\ UNCHANGED <<remote, mode, runs, app_id, app_object_id, sp_obj_id,
                   client_secret_value, role_idx, exports, completed>>

\* lines 66-92: look the application and its principal up
FindResources(a, s, ok) ==
    LET fn == "async_main"
        c1 == Call(fn, "applications.get", None, ok.apps)
        c2 == Call(fn, "service_principals.get", None, ok.sps)
        applications == Listing(a)
        foundApp == {i \in 1..Len(applications) : applications[i].displayName = SP_NAME}
        app == applications[CHOOSE i \in foundApp : \A j \in foundApp : i <= j]
        service_principals == Listing(s)
        foundSp == {i \in 1..Len(service_principals) : service_principals[i].appId = app.appId}
        sp == service_principals[CHOOSE i \in foundSp : \A j \in foundSp : i <= j]
        none == [calls |-> <<c1>>, raised |-> FALSE, app_id |-> None,
                 app_object_id |-> None, sp_obj_id |-> None]
    IN  IF ~ok.apps THEN [none EXCEPT !.raised = TRUE]
        ELSE IF foundApp = {} THEN none
        ELSE IF ~ok.sps
        THEN [none EXCEPT !.calls = <<c1, c2>>, !.raised = TRUE]
        ELSE [calls |-> <<c1, c2>>, raised |-> FALSE, app_id |-> app.appId,
              app_object_id |-> app.id,
              sp_obj_id |-> IF foundSp = {} THEN None ELSE sp.id]

TeardownFind ==
    /\ pc = "t_find"
    /\ \E ok \in [apps : BOOLEAN, sps : BOOLEAN] :
        LET r == FindResources(apps, sps, ok)
            inv == Invocation("async_main", None, SP_NAME, "", <<>>, None)
        IN  /\ last' = [inv EXCEPT !.raised = r.raised, !.calls = r.calls]
            /\ RunStep(inv, r)
            /\ IF r.raised
               THEN Fail /\ UNCHANGED <<app_id, app_object_id, sp_obj_id>>
               ELSE /\ pc' = "t_roles" /\ UNCHANGED exit_code
                    /\ app_id' = r.app_id /\ app_object_id' = r.app_object_id
                    /\ sp_obj_id' = r.sp_obj_id
    /\ UNCHANGED <<remote, client_secret_value, role_idx, response, exports, completed>>

\* one pass of `for role in config['ROLES']` (lines 98-107)
TeardownRole ==
    /\ pc = "t_roles"
    /\ \E ok \in RemoveAllOutcomes(sps, assignments, sp_obj_id, SP_NAME, ROLES[role_idx],
                                   SubScope) :
        LET r == remove_all_iam_roles_async(sps, assignments, sp_obj_id, SP_NAME,
                                            ROLES[role_idx], SubScope, ok)
            inv == Invocation("remove_all_iam_roles_async", sp_obj_id, SP_NAME,
                              ROLES[role_idx], SubScope, None)
        IN  /\ assignments' = r.assignments
            /\ last' = RemoveAllSummary(inv, r)
            /\ RunStep(inv, r)
            /\ IF r.raised THEN Fail /\ UNCHANGED role_idx
               ELSE /\ role_idx' = role_idx + 1 /\ UNCHANGED exit_code
                    /\ pc' = IF role_idx = Len(ROLES) THEN "t_sp" ELSE "t_roles"
    /\ UNCHANGED <<apps, sps, nextId, app_id, app_object_id, sp_obj_id,
                   client_secret_value, response, exports, completed>>

\* lines 110-115
TeardownSP ==
    /\ pc = "t_sp"
    /\ IF sp_obj_id # None
       THEN \E ok \in [get : BOOLEAN, delete : BOOLEAN] :
            LET r == remove_service_principal_async(sps, sp_obj_id, ok)
                inv == Invocation("remove_service_principal_async", sp_obj_id, "", "",
                                  <<>>, None)
            IN  /\ sps' = r.sps
                /\ last' = [inv EXCEPT !.raised = r.raised, !.calls = r.calls]
                /\ RunStep(inv, r)
       ELSE NoCallStep /\ UNCHANGED <<sps, mode, runs>>
    /\ pc' = "t_app"
    /\ UNCHANGED <<apps, assignments, nextId, locals, outcome>>

\* lines 117-122
TeardownApp ==
    /\ pc = "t_app"
    /\ IF app_object_id # None
       THEN \E ok \in [get : BOOLEAN, delete : BOOLEAN] :
            LET r == remove_app_registration_async(apps, app_object_id, ok)
                inv == Invocation("remove_app_registration_async", None, "", "", <<>>,
                                  app_object_id)
            IN  /\ apps' = r.apps
                /\ last' = [inv EXCEPT !.raised = r.raised, !.calls = r.calls]
                /\ RunStep(inv, r)
       ELSE NoCallStep /\ UNCHANGED <<apps, mode, runs>>
    /\ pc' = "t_done"
    /\ UNCHANGED <<sps, assignments, nextId, locals, outcome>>

\* lines 124-125, then the process ends normally
TeardownDone ==
    /\ pc = "t_done"
    /\ completed' = TRUE /\ pc' = "exited" /\ exit_code' = 0
    /\ NoCallStep
    /\ UNCHANGED <<remote, mode, runs, locals, exports>>

----------------------------------------------------------------------------
(* sku_availability/filter_skus.py *)

\* records of the array on standard input
MaxSkus == 2

Locations == {"eastus", "westus"}

\* one element of a record's "restrictions".  has_info: the element has a
\* "restrictionInfo" object with a "locations" list
Restriction(type, reasonCode, has_info, locations) ==
    [type |-> type, reasonCode |-> reasonCode, has_info |-> has_info,
     locations |-> locations]

LocationLists == {<<>>, <<"eastus">>, <<"westus">>, <<"westus", "eastus">>}

Restrictions ==
    {Restriction(t, c, TRUE, l) : t \in {"Location", "Zone"},
                                  c \in {"NotAvailableForSubscription", "QuotaId"},
                                  l \in LocationLists}
    \cup {Restriction(t, c, FALSE, <<>>) : t \in {"Location", "Zone"},
                                           c \in {"NotAvailableForSubscription", "QuotaId"}}

\* the restrictions that lists of two are made of
PairParts ==
    {Restriction("Zone", "NotAvailableForSubscription", TRUE, <<"eastus">>),
     Restriction("Location", "NotAvailableForSubscription", TRUE, <<"eastus">>),
     Restriction("Location", "NotAvailableForSubscription", TRUE, <<"westus">>),
     Restriction("Location", "QuotaId", TRUE, <<"eastus">>)}

\* a SKU record.  has_restrictions: the record has a "restrictions" key
SkuRecords ==
    {[has_restrictions |-> FALSE, restrictions |-> <<>>]}
    \cup {[has_restrictions |-> TRUE, restrictions |-> l] :
            l \in {<<>>} \cup {<<r>> : r \in Restrictions}
                        \cup {<<a, b>> : a \in PairParts, b \in PairParts}}

\* line 18: r.get("restrictionInfo", {}).get("locations", [])
LocationsOf(r) == IF r.has_info THEN r.locations ELSE <<>>

\* lines 16-20: the loop returns False at the first restriction of the whole
\* location and True when it runs out
RECURSIVE ScanRestrictions(_, _)
ScanRestrictions(restrictions, loc) ==
    IF restrictions = <<>> THEN TRUE
    ELSE LET r == Head(restrictions)
         IN  IF /\ r.type = "Location"
                /\ r.reasonCode = "NotAvailableForSubscription"
                /\ \E i \in 1..Len(LocationsOf(r)) : LocationsOf(r)[i] = loc
             THEN FALSE
             ELSE ScanRestrictions(Tail(restrictions), loc)

\* the predicate that keeps only the records without any restriction
is_fully_available_EmptyOnly(sku, loc) ==
    (IF sku.has_restrictions THEN sku.restrictions ELSE <<>>) = <<>>

\* lines 10-20
is_fully_available(sku, loc) ==
    LET restrictions == IF sku.has_restrictions THEN sku.restrictions ELSE <<>>
    IN  IF restrictions = <<>> THEN TRUE
        ELSE ScanRestrictions(restrictions, loc)

\* line 22: [obj for obj in all_skus if is_fully_available(obj, location)]
RECURSIVE Comprehension(_, _)
Comprehension(objs, loc) ==
    IF objs = <<>> THEN <<>>
    ELSE (IF is_fully_available(Head(objs), loc) THEN <<Head(objs)>> ELSE <<>>)
         \o Comprehension(Tail(objs), loc)

\* lines 7-8: the input of one run of the script
InitSkus ==
    /\ apps = {} /\ sps = {} /\ assignments = {}
    /\ ScriptsIdle
    /\ all_skus \in UNION {[1..n -> SkuRecords] : n \in 0..MaxSkus}
    /\ location \in Locations
    /\ filtered = <<>> /\ written = FALSE

\* lines 22-36: the script filters the array and writes the output file
FilterSkus ==
    /\ ~written /\ location \in Locations
    /\ filtered' = Comprehension(all_skus, location)
    /\ written' = TRUE
    /\ UNCHANGED <<remote, pc, mode, runs, locals, outcome, last, repeat,
                   all_skus, location>>

NextSkus == FilterSkus

SpecSkus == InitSkus /\ [][NextSkus]_vars

----------------------------------------------------------------------------

Next ==
    \/ ApiAssign \/ ApiSecret \/ ApiRemoveAll \/ ApiRemoveSP \/ ApiRemoveApp
    \/ SetupStart \/ SetupApp \/ SetupSP \/ SetupSecret \/ SetupRole \/ SetupExport
    \/ TeardownStart \/ Prompt \/ TeardownFind \/ TeardownRole \/ TeardownSP
    \/ TeardownApp \/ TeardownDone
    \/ Restart

Spec == Init /\ [][Next]_vars

\* the functions called on their own, in any order
NextFunctions ==
    \/ ApiAssign \/ ApiSecret \/ ApiRemoveAll \/ ApiRemoveSP \/ ApiRemoveApp
    \/ Restart

SpecFunctions == Init /\ [][NextFunctions]_vars

\* runs of az_create_sp.py and calls of assign_iam_role_async, in any order
NextSetup ==
    \/ ApiAssign
    \/ SetupStart \/ SetupApp \/ SetupSP \/ SetupSecret \/ SetupRole \/ SetupExport
    \/ Restart

SpecSetup == Init /\ [][NextSetup]_vars

\* runs of az_destroy_sp.py and calls of the two removal functions, in any order
NextTeardown ==
    \/ ApiRemoveSP \/ ApiRemoveApp
    \/ TeardownStart \/ Prompt \/ TeardownFind \/ TeardownRole \/ TeardownSP
    \/ TeardownApp \/ TeardownDone
    \/ Restart

SpecTeardown == Init /\ [][NextTeardown]_vars

\* runs of the two orchestrators, in any order
NextRuns ==
    \/ SetupStart \/ SetupApp \/ SetupSP \/ SetupSecret \/ SetupRole \/ SetupExport
    \/ TeardownStart \/ Prompt \/ TeardownFind \/ TeardownRole \/ TeardownSP
    \/ TeardownApp \/ TeardownDone
    \/ Restart

SpecRuns == Init /\ [][NextRuns]_vars

\* runs of az_destroy_sp.py and calls of remove_all_iam_roles_async, in any order
NextRemoval ==
    \/ ApiRemoveAll
    \/ TeardownStart \/ Prompt \/ TeardownFind \/ TeardownRole \/ TeardownSP
    \/ TeardownApp \/ TeardownDone
    \/ Restart

SpecRemoval == Init /\ [][NextRemoval]_vars

----------------------------------------------------------------------------
(* Properties *)

\* the remote calls of the latest step with the given operation
CallsOf(op) == {i \in 1..Len(last.calls) : last.calls[i].op = op}
FailedCalls == {i \in 1..Len(last.calls) : ~last.calls[i].ok}

RoleDefOf(role) == CHOOSE d \in RoleDefIds : role_name(d) = role

AssignmentsFor(principal, role_definition_id, scope) ==
    {a \in assignments : /\ a.principalId = principal
                         /\ a.roleDefinitionId = role_definition_id
                         /\ a.scope = scope}

\* C1: when assign_iam_role_async has been called twice in a row with the same
\* principal, role and scope and both calls returned normally, the second call
\* issued no create call and exactly one assignment of that role definition to
\* that principal exists at that scope.
C1_AssignTwiceIsOnce ==
    (last.fn = "assign_iam_role_async" /\ repeat /\ ~last.raised) =>
        /\ CallsOf("role_assignments.create") = {}
        /\ Cardinality(AssignmentsFor(last.principal, RoleDefOf(last.role),
                                      last.scope)) = 1

\* the second of two equal calls has returned; the first one had to create
C1_Witness ==
    /\ last.fn = "assign_iam_role_async" /\ repeat /\ ~last.raised
    /\ \E a \in AssignmentsFor(last.principal, RoleDefOf(last.role), last.scope) :
          a.id >= FirstFreshId

\* the application a create_client_secret_async step looked up, as it was
\* before the step
LookedUpApp == CHOOSE x \in apps : x.id = last'.calls[2].arg
SecretStep == last'.fn = "create_client_secret_async" /\ Len(last'.calls) >= 2
PostsOfStep ==
    {i \in 1..Len(last'.calls) : last'.calls[i].op = "add_password.post"}

\* C2 (as stated): whenever the application already has a password credential,
\* create_client_secret_async returns the sentinel and issues no add-password
\* call, and when it has none exactly one add-password call is issued and its
\* value returned, whatever the outcome of the calls made while checking.
C2_Original ==
    [][SecretStep =>
          IF LookedUpApp.secrets > 0
          THEN last'.secret = EXISTING_SECRET /\ PostsOfStep = {}
          ELSE /\ Cardinality(PostsOfStep) = 1
               /\ (~last'.raised => last'.secret = SECRET_TEXT)]_vars

\* C2 (amended): when the application has a password credential and the call
\* that reads its credentials succeeds, create_client_secret_async returns the
\* sentinel, issues no add-password call and leaves the application as it is;
\* when it has none, or when that read fails, exactly one add-password call
\* is issued: on success its value is returned and the application has one
\* credential more, on failure the function raises and changes nothing.
C2_SecretIssuance ==
    [][SecretStep =>
          IF LookedUpApp.secrets > 0 /\ last'.calls[2].ok
          THEN /\ last'.secret = EXISTING_SECRET /\ PostsOfStep = {}
               /\ ~last'.raised /\ apps' = apps
          ELSE /\ Cardinality(PostsOfStep) = 1
               /\ \A i \in PostsOfStep :
                    IF last'.calls[i].ok
                    THEN /\ ~last'.raised /\ last'.secret = SECRET_TEXT
                         /\ apps' = (apps \ {LookedUpApp}) \cup
                              {[LookedUpApp EXCEPT !.secrets = @ + 1]}
                    ELSE last'.raised /\ apps' = apps]_vars

\* the read of the credentials failed on an application that had one, and a
\* second credential was created and returned
C2_Witness ==
    /\ last.fn = "create_client_secret_async" /\ Len(last.calls) = 3
    /\ ~last.calls[2].ok /\ last.calls[3].ok /\ last.secret = SECRET_TEXT
    /\ \E x \in apps : x.id = last.calls[2].arg /\ x.secrets >= 2

\* the assignments the latest remove_all_iam_roles_async call deleted: those
\* of its two lists whose delete call succeeded
FoundByLast == Range(last.direct) \cup Range(last.orphaned)
DeletedByLast ==
    {a \in FoundByLast :
        \E i \in CallsOf("role_assignments.delete_by_id") :
            last.calls[i].arg = a.id /\ last.calls[i].ok}
LivePrincipals == {x.id : x \in sps}

\* C3: every role assignment remove_all_iam_roles_async deletes has a
\* principalId among the target principal ids or is an orphan, its principalId
\* being the id of no live service principal; no assignment of a live
\* principal other than the targets is deleted.
C3_OnlyTargetsOrOrphans ==
    last.fn = "remove_all_iam_roles_async" =>
        \A a \in DeletedByLast :
            a.principalId \in last.targets \/ a.principalId \notin LivePrincipals

RemoveAllStep == last'.fn = "remove_all_iam_roles_async"
DeletesOfStep ==
    {i \in 1..Len(last'.calls) : last'.calls[i].op = "role_assignments.delete_by_id"}

\* C4: a remove_all_iam_roles_async call with a principal object id never
\* runs the orphan sweep: its orphan list is empty, and every assignment it
\* tries to delete or removes has that id as principalId, whatever the role,
\* scope and name arguments are.
C4_NoSweepWithObjectId ==
    [][(RemoveAllStep /\ last'.principal # None) =>
          /\ last'.orphaned = <<>>
          /\ \A i \in DeletesOfStep :
               \E a \in assignments : /\ a.id = last'.calls[i].arg
                                      /\ a.principalId = last'.principal
          /\ \A a \in assignments \ assignments' :
               a.principalId = last'.principal]_vars

\* a call with an object id, a role and a scope removed an assignment and
\* left another principal's assignment that the sweep would have matched
C4_Witness ==
    /\ last.fn = "remove_all_iam_roles_async" /\ last.principal # None
    /\ last.role # "" /\ last.scope # <<>> /\ last.removed > 0
    /\ \E a \in assignments : /\ a.principalId # last.principal
                               /\ role_name(a.roleDefinitionId) = last.role
                               /\ ScopeRelated(last.scope, a)

\* no assignment of the directory is a direct match or an orphan candidate
\* of a remove_all_iam_roles_async call with these arguments
NothingMatches(principal, sp_name, role, scope) ==
    LET targets == IF principal # None THEN {principal}
                   ELSE {x.id : x \in {y \in sps : y.displayName = sp_name}}
    IN  \A a \in assignments :
           /\ a.principalId \notin targets
           /\ \/ principal # None \/ role = "" \/ scope = <<>>
              \/ ~ScopeRelated(scope, a)
              \/ role_name(a.roleDefinitionId) # role

\* C5: a remove_all_iam_roles_async call that has listed the assignments and
\* found no direct match and no orphan candidate reports found = 0 and
\* removed = 0, issues no delete call and leaves the role assignments of the
\* subscription unchanged.
C5_NothingFoundIsNoOp ==
    [][(/\ RemoveAllStep /\ last'.listed
        /\ \/ last'.direct = <<>> /\ last'.orphaned = <<>>
           \/ NothingMatches(last'.principal, last'.name, last'.role, last'.scope)) =>
          /\ last'.found = 0 /\ last'.removed = 0
          /\ last'.direct = <<>> /\ last'.orphaned = <<>>
          /\ DeletesOfStep = {}
          /\ assignments' = assignments]_vars

\* a call listed a subscription that has assignments and found none to remove
C5_Witness ==
    /\ last.fn = "remove_all_iam_roles_async" /\ last.listed /\ FailedCalls = {}
    /\ last.direct = <<>> /\ last.orphaned = <<>> /\ last.found = 0
    /\ assignments # {}
    /\ NothingMatches(last.principal, last.name, last.role, last.scope)

SecretCheckOp == "applications.by_application_id.get"
FatalFailures == {i \in FailedCalls : last.calls[i].op # SecretCheckOp}
SetupAborted == pc = "exited" /\ exit_code = 1 /\ ~exports

\* C6 (as stated): when a remote call of a setup run fails, whichever it is,
\* it is the last remote call of the run, no export line is emitted and the
\* process exits with code 1.
C6_Original ==
    (mode = "setup" /\ FailedCalls # {}) =>
        FailedCalls = {Len(last.calls)} /\ SetupAborted

\* C6 (amended): when a remote call of a setup run other than the read of the
\* application's existing credentials fails, it is the last remote call of the
\* run, no export line is emitted and the process exits with code 1.  A failed
\* read of the existing credentials is not fatal: the add-password call
\* follows it, and the run goes on to the role assignments when that succeeds.
C6_SetupFailureIsFatal ==
    mode = "setup" =>
        /\ FatalFailures # {} => FatalFailures = {Len(last.calls)} /\ SetupAborted
        /\ (pc = "exited" /\ exit_code = 1) => ~exports /\ last.raised
        /\ (FailedCalls # {} /\ FatalFailures = {}) =>
              /\ last.fn = "create_client_secret_async"
              /\ CallsOf("add_password.post") = {Len(last.calls)}
              /\ pc = "s_roles" /\ ~last.raised

\* the creation of the second role's assignment failed: the run exited with
\* code 1 after the first role had been assigned
C6_Witness ==
    /\ mode = "setup" /\ SetupAborted /\ role_idx = Len(ROLES)
    /\ last.fn = "assign_iam_role_async"
    /\ FailedCalls = CallsOf("role_assignments.create") /\ FailedCalls # {}

\* C7: once remove_all_iam_roles_async has computed its direct and orphan
\* lists and they are not both empty, every assignment of either list gets
\* exactly one delete call, whichever earlier delete calls or role-name
\* lookups failed, and the function does not raise.
C7_EveryFoundIsTried ==
    (/\ last.fn = "remove_all_iam_roles_async" /\ last.listed
     /\ (last.direct # <<>> \/ last.orphaned # <<>>)) =>
        /\ \A a \in FoundByLast :
             Cardinality({i \in CallsOf("role_assignments.delete_by_id") :
                             last.calls[i].arg = a.id}) = 1
        /\ \A i \in CallsOf("role_assignments.delete_by_id") :
             \E a \in FoundByLast : a.id = last.calls[i].arg
        /\ ~last.raised
        /\ last.found = Cardinality(FoundByLast)
        /\ last.removed = Cardinality(DeletedByLast)

\* a delete call failed, a role-name lookup failed, and a later assignment
\* of the batch was deleted all the same
C7_Witness ==
    /\ last.fn = "remove_all_iam_roles_async" /\ last.found >= 2
    /\ \E i, j, k \in 1..Len(last.calls) :
          /\ i < k /\ j < k
          /\ last.calls[i].op = "role_assignments.delete_by_id" /\ ~last.calls[i].ok
          /\ last.calls[j].op = "role_definitions.get_by_id" /\ ~last.calls[j].ok
          /\ last.calls[k].op = "role_assignments.delete_by_id" /\ last.calls[k].ok

RemovalOps == {"service_principals.by_id.delete", "applications.by_id.delete"}
RemovalsOfStep == {i \in 1..Len(last'.calls) : last'.calls[i].op \in RemovalOps}

\* C8: removing a service principal or an application registration that is
\* already absent returns without raising and without a delete call, and
\* changes nothing; in a teardown run the step after the removal of the
\* principal is the removal of the application registration, which is
\* attempted whenever the registration was found, whatever the outcome of the
\* removal of the principal.
C8_AbsentIsSuccess ==
    [][/\ (/\ last'.fn = "remove_service_principal_async"
           /\ last'.principal \notin {x.id : x \in sps}) =>
              ~last'.raised /\ RemovalsOfStep = {} /\ UNCHANGED remote
       /\ (/\ last'.fn = "remove_app_registration_async"
           /\ last'.app \notin {x.id : x \in apps}) =>
              ~last'.raised /\ RemovalsOfStep = {} /\ UNCHANGED remote
       /\ pc = "t_sp" => pc' = "t_app"
       /\ (pc = "t_app" /\ app_object_id # None) =>
              /\ last'.fn = "remove_app_registration_async"
              /\ last'.app = app_object_id /\ last'.calls # <<>>
              /\ pc' = "t_done"]_vars

\* the principal was removed by one call and found absent by the next
C8_Witness ==
    /\ last.fn = "remove_service_principal_async" /\ repeat
    /\ last.principal \notin LivePrincipals
    /\ Len(last.calls) = 1 /\ ~last.calls[1].ok /\ ~last.raised

\* the answers that spell yes or y in some mix of upper and lower case
IsYes(answer) ==
    \/ Len(answer) = 1 /\ answer[1] \in {"y", "Y"}
    \/ /\ Len(answer) = 3 /\ answer[1] \in {"y", "Y"}
       /\ answer[2] \in {"e", "E"} /\ answer[3] \in {"s", "S"}

\* C9: a teardown run issues no remote call and changes no remote state
\* unless the answer to the confirmation prompt was yes or y in any case;
\* the prompt itself issues none, and on any other answer the run ends there
\* with exit code 0 and the remote state as it was.
C9_ConfirmationGates ==
    [][/\ (mode' = "teardown" /\ last'.calls # <<>>) => IsYes(response')
       /\ (mode' = "teardown" /\ remote' # remote) => IsYes(response')
       /\ pc = "t_prompt" =>
            /\ last'.calls = <<>> /\ UNCHANGED remote
            /\ IF IsYes(response')
               THEN pc' = "t_find"
               ELSE pc' = "exited" /\ exit_code' = 0 /\ ~completed']_vars

\* the user answered "ye": the run ended with code 0 and the principal and
\* its assignment are still there
C9_Witness ==
    /\ mode = "teardown" /\ pc = "exited" /\ exit_code = 0 /\ ~completed
    /\ response = <<"y", "e">>
    /\ TargetSP \in sps /\ A1 \in assignments

\* C10: at most one role assignment exists per (principalId, roleDefinitionId,
\* scope), in every state the setup runs and the assign calls reach.
C10_Unique ==
    \A a, b \in assignments :
        (/\ a.principalId = b.principalId
         /\ a.roleDefinitionId = b.roleDefinitionId
         /\ a.scope = b.scope) => a = b

\* a setup run assigned a role the principal already had: nothing was created
C10_Witness ==
    /\ mode = "setup" /\ last.fn = "assign_iam_role_async" /\ ~last.raised
    /\ CallsOf("role_assignments.create") = {}
    /\ runs = MaxRuns

\* the record has a restriction of the whole location for the subscription
\* that names the location
ExcludedAt(sku, loc) ==
    /\ sku.has_restrictions
    /\ \E r \in Range(sku.restrictions) :
          /\ r.type = "Location" /\ r.reasonCode = "NotAvailableForSubscription"
          /\ r.has_info /\ loc \in Range(r.locations)
KeptAt(sku) == ~ExcludedAt(sku, location)

\* C11: the array filter_skus.py writes is the input array without the
\* records that have a restriction of type Location with reason code
\* NotAvailableForSubscription whose location list contains the queried
\* location, in the input's order; every other record is retained, those
\* without restrictions, with zone restrictions only, or with a Location
\* restriction naming only other locations included.
C11_SkuFilter ==
    written =>
        /\ filtered = SelectSeq(all_skus, KeptAt)
        /\ \A i \in 1..Len(all_skus) :
             is_fully_available(all_skus[i], location) <=> KeptAt(all_skus[i])

\* a run that dropped a record restricted in the location and kept one
\* restricted in a zone of the location or in the other location only
C11_Witness ==
    /\ written /\ Len(all_skus) = 2 /\ Len(filtered) = 1
    /\ ExcludedAt(all_skus[1], location)
    /\ filtered[1] = all_skus[2]
    /\ \E r \in Range(all_skus[2].restrictions) :
          \/ r.type = "Zone" /\ location \in Range(r.locations)
          \/ /\ r.type = "Location" /\ r.reasonCode = "NotAvailableForSubscription"
             /\ r.locations # <<>> /\ location \notin Range(r.locations)

\* the call `after` may directly follow the call `before` in a setup run
SetupOrder(before, after) ==
    \/ before.fn = "none" /\ after.fn = "create_app_registration_async"
    \/ /\ before.fn = "create_app_registration_async"
       /\ after.fn = "create_service_principal_async"
    \/ /\ before.fn = "create_service_principal_async"
       /\ after.fn = "create_client_secret_async"
    \/ /\ before.fn = "create_client_secret_async"
       /\ after.fn = "assign_iam_role_async" /\ after.role = ROLES[1]
    \/ /\ before.fn = "assign_iam_role_async" /\ after.fn = "assign_iam_role_async"
       /\ \E i \in 1..(Len(ROLES) - 1) :
             before.role = ROLES[i] /\ after.role = ROLES[i + 1]

\* the call `after` may directly follow the call `before` in a teardown run
TeardownOrder(before, after) ==
    \/ before.fn = "none" /\ after.fn = "async_main"
    \/ /\ before.fn = "async_main"
       /\ after.fn = "remove_all_iam_roles_async" /\ after.role = ROLES[1]
    \/ /\ before.fn = "remove_all_iam_roles_async"
       /\ after.fn = "remove_all_iam_roles_async"
       /\ \E i \in 1..(Len(ROLES) - 1) :
             before.role = ROLES[i] /\ after.role = ROLES[i + 1]
    \/ /\ before.fn = "remove_all_iam_roles_async" /\ before.role = ROLES[Len(ROLES)]
       /\ after.fn = "remove_service_principal_async"
    \/ /\ before.fn = "remove_service_principal_async"
       /\ after.fn = "remove_app_registration_async"
    \* no principal was found: its removal is skipped
    \/ /\ before.fn = "none" /\ sp_obj_id = None /\ pc = "t_app"
       /\ after.fn = "remove_app_registration_async"

\* C12: in a setup run the calls follow one another in the order application
\* registration, service principal, client secret, one role assignment per
\* configured role in ROLES order, each after the one before it succeeded, and
\* the export lines come only after the last role was assigned; in a confirmed
\* teardown run the role removals, one per configured role in ROLES order,
\* come before the removal of the principal, which comes before the removal
\* of the application registration.
C12_Ordering ==
    [][/\ (mode' = "setup" /\ last'.fn # "none") =>
             SetupOrder(last, last') /\ ~last.raised /\ ~exports'
       /\ (exports' /\ ~exports) =>
             /\ last.fn = "assign_iam_role_async" /\ ~last.raised
             /\ last.role = ROLES[Len(ROLES)]
       /\ (mode' = "teardown" /\ last'.fn # "none") =>
             TeardownOrder(last, last') /\ IsYes(response)
       /\ (mode' = "teardown" /\ pc' = "t_app" /\ sp_obj_id # None) =>
             last'.fn = "remove_service_principal_async"]_vars

\* a teardown run that removed the assignments, the principal and the
\* application registration that the setup run before it had created
C12_Witness ==
    /\ mode = "teardown" /\ pc = "t_done"
    /\ last.fn = "remove_app_registration_async" /\ Len(last.calls) = 2
    /\ last.calls[2].ok /\ last.app >= FirstFreshId
    /\ sp_obj_id >= FirstFreshId /\ sp_obj_id \notin LivePrincipals

\* C13: remove_all_iam_roles_async called with neither a principal object id
\* nor a principal name raises to its caller before any remote call is issued
\* and changes nothing; no other call of the function raises.
C13_InvalidArgumentRaises ==
    [][RemoveAllStep =>
          /\ (last'.principal = None /\ last'.name = "") =>
                last'.raised /\ last'.calls = <<>> /\ UNCHANGED remote
          /\ last'.raised => (last'.principal = None /\ last'.name = "")]_vars

\* the call without id and without name was made in a subscription that had
\* assignments the role and scope arguments match
C13_Witness ==
    /\ last.fn = "remove_all_iam_roles_async" /\ last.raised
    /\ last.principal = None /\ last.name = "" /\ last.role # ""
    /\ \E a \in assignments : /\ role_name(a.roleDefinitionId) = last.role
                               /\ ScopeRelated(last.scope, a)

SucceededDeletes ==
    {i \in CallsOf("role_assignments.delete_by_id") : last.calls[i].ok}
CountsOfLast ==
    /\ last.found = Len(last.direct) + Len(last.orphaned)
    /\ last.removed = Cardinality(SucceededDeletes)
    /\ 0 <= last.removed /\ last.removed <= last.found
    /\ Range(last.direct) \cap Range(last.orphaned) = {}
    /\ \A i, j \in CallsOf("role_assignments.delete_by_id") :
          last.calls[i].arg = last.calls[j].arg => i = j

\* C14 (as stated): remove_all_iam_roles_async returns the counts found and
\* removed, found being the number of direct matches plus the number of
\* orphan candidates and removed the number of delete calls that succeeded,
\* with 0 <= removed <= found, the two lists disjoint and no assignment
\* deleted twice.
C14_Original ==
    (last.fn = "remove_all_iam_roles_async" /\ last.listed) =>
        /\ last.ret # None
        /\ last.ret = [found |-> last.found, removed |-> last.removed]
        /\ CountsOfLast

\* C14 (amended): remove_all_iam_roles_async returns nothing (None); the
\* counts it computes and prints satisfy found = direct matches + orphan
\* candidates and removed = delete calls that succeeded, 0 <= removed <=
\* found, the two lists are disjoint and no assignment gets two delete calls.
C14_CountsPrintedNotReturned ==
    last.fn = "remove_all_iam_roles_async" =>
        /\ last.ret = None
        /\ last.listed => CountsOfLast

\* a name-based call found a direct match and an orphan candidate and
\* removed one of the two
C14_Witness ==
    /\ last.fn = "remove_all_iam_roles_async" /\ last.listed
    /\ last.direct # <<>> /\ last.orphaned # <<>>
    /\ last.found = 2 /\ last.removed = 1

NoDeleteFailed(c) ==
    \A i \in 1..Len(c.calls) :
        c.calls[i].op = "role_assignments.delete_by_id" => c.calls[i].ok
NoneLeftOf(principal) == \A a \in assignments' : a.principalId # principal

\* C15 (as stated): after a remove_all_iam_roles_async call with a principal
\* object id and no delete failure no role assignment of the subscription has
\* that principalId, whatever role and scope were requested; and in a teardown
\* run every call after the first finds zero assignments and issues no delete.
C15_Original ==
    [][RemoveAllStep =>
          /\ (last'.principal # None /\ NoDeleteFailed(last')) =>
                NoneLeftOf(last'.principal)
          /\ (mode = "teardown" /\ mode' = "teardown"
              /\ last.fn = "remove_all_iam_roles_async") =>
                last'.found = 0 /\ DeletesOfStep = {}]_vars

\* C15 (amended): after a remove_all_iam_roles_async call with a principal
\* object id whose listing of the assignments succeeded and whose delete calls
\* all succeeded, no role assignment of the subscription has that
\* principalId, whatever role and scope were requested; in a teardown run that
\* found the principal, every call that follows such a call finds zero
\* assignments and issues no delete.
C15_DirectByPrincipalAlone ==
    [][RemoveAllStep =>
          /\ (last'.principal # None /\ last'.listed /\ NoDeleteFailed(last')) =>
                NoneLeftOf(last'.principal)
          /\ (/\ mode = "teardown" /\ mode' = "teardown"
              /\ last.fn = "remove_all_iam_roles_async"
              /\ last.principal # None /\ last.listed /\ NoDeleteFailed(last)) =>
                last'.found = 0 /\ DeletesOfStep = {}]_vars

\* a call for the Reader role at a resource group removed the principal's
\* Contributor assignment at the subscription
C15_Witness ==
    /\ last.fn = "remove_all_iam_roles_async" /\ last.principal # None
    /\ last.listed /\ last.removed > 0 /\ last.removed = last.found
    /\ \E a \in Range(last.direct) :
          role_name(a.roleDefinitionId) # last.role /\ a.scope # last.scope
    /\ \A a \in assignments : a.principalId # last.principal

AppsNamed(display_name) == {x \in apps : x.displayName = display_name}
PrincipalsOf(appId) == {x \in sps : x.appId = appId}
CreatesOfStep ==
    {i \in 1..Len(last'.calls) :
        last'.calls[i].op \in {"applications.post", "service_principals.post"}}

\* C16: setup runs never make a second application registration named
\* SP_NAME nor a second service principal for its application id; after a
\* setup run that printed its export lines exactly one of each exists; and a
\* create_app_registration_async (create_service_principal_async) call whose
\* listing holds a display-name (application-id) match issues no create call
\* and returns the identifier of the match.
C16_FindOrCreateOnce ==
    [][/\ Cardinality(AppsNamed(SP_NAME)) <= 1 =>
            /\ Cardinality(AppsNamed(SP_NAME))' <= 1
            /\ (mode' = "setup" /\ exports') => Cardinality(AppsNamed(SP_NAME))' = 1
       /\ \A x \in AppsNamed(SP_NAME)' :
            /\ Cardinality(PrincipalsOf(x.appId)) <= 1 =>
                  Cardinality(PrincipalsOf(x.appId))' <= 1
            /\ (mode' = "setup" /\ exports') => Cardinality(PrincipalsOf(x.appId))' = 1
       /\ (/\ last'.fn = "create_app_registration_async" /\ last'.calls[1].ok
           /\ AppsNamed(last'.name) # {}) =>
            /\ CreatesOfStep = {} /\ UNCHANGED remote
            /\ \E x \in AppsNamed(last'.name) : last'.ret = x.appId
       /\ (/\ last'.fn = "create_service_principal_async" /\ last'.calls[1].ok
           /\ PrincipalsOf(last'.app) # {}) =>
            /\ CreatesOfStep = {} /\ UNCHANGED remote
            /\ \E x \in PrincipalsOf(last'.app) : last'.ret = x.id]_vars

\* the second of two setup runs printed its export lines; the application
\* and the principal it used were created by the first, on a directory that
\* had no application named SP_NAME
C16_Witness ==
    /\ mode = "setup" /\ exports /\ runs = 2
    /\ nextId = FirstFreshId + 5
    /\ \E x \in apps : /\ x.id = FirstFreshId /\ x.displayName = SP_NAME
                       /\ x.appId = app_id
                       /\ \E y \in sps : y.id = sp_obj_id /\ y.appId = x.appId
                                         /\ y.id >= FirstFreshId

\* lines 124-125 were printed and the process ended normally
TeardownReported ==
    /\ mode = "teardown" /\ Confirmed(response)
    /\ completed /\ pc = "exited" /\ exit_code = 0

\* C17: when a confirmed teardown run has printed its completion report and
\* exited normally, no application registration named SP_NAME is left, none
\* of the service principals of the application the run found is left, and no
\* role assignment of the principal the run found is left, whatever remote
\* calls failed during the run.
C17_ReportedMeansRemoved ==
    TeardownReported =>
        /\ AppsNamed(SP_NAME) = {}
        /\ app_id # None => PrincipalsOf(app_id) = {}
        /\ sp_obj_id # None => \A a \in assignments : a.principalId # sp_obj_id

====
